---- MODULE Spec2Model ----
(***************************************************************************)
(* critter::WebServer (include/critter/webserver.h): the route table, the  *)
(* listener do_listen, the per-connection session loop do_session, the     *)
(* WebSocket session registry ws_sessions_ guarded by mutex_, and the      *)
(* worker threads with start, run, stop and the destructor.                *)
(*                                                                         *)
(* detail/registry.h and detail/websocket_session.h are not part of the    *)
(* sources at hand: Registry::get and WebSocketSessionImpl::run are        *)
(* modelled from the specification (sections 4.1 and 4.4) and from the way *)
(* webserver.h calls them.                                                 *)
(*                                                                         *)
(* Every coroutine is a process that may be resumed by any worker thread,  *)
(* so the actions of different connections interleave freely; code between *)
(* two suspension points touches only the coroutine's own locals, except   *)
(* for the registry operations, which are split at the mutex.              *)
(***************************************************************************)
EXTENDS Naturals, Sequences, FiniteSets, TLC

\* ---------------------------------------------------------------- bounds
NumConns == 2      \* sockets the listener accepts
MaxReq == 2        \* requests read on one connection
MaxRoutes == 2     \* routes registered before the server is started
MaxClose == 2      \* close signals one WebSocket session receives
MaxAcceptFail == 1 \* accepts that fail
MaxThreads == 2    \* worker threads created by all calls of start
MaxCalls == 3      \* calls of start, run and stop before the server is destroyed
MaxSessions == 3   \* sessions in a registry that remove() is applied to

\* ------------------------------------------------------ program constants
not_found_status == 404
internal_server_error == 500

VARIABLES
    registry_,      \* the route table, in registration order
    started,        \* start() or run() has been called
    pc,             \* per connection: where its do_session coroutine is
    cur,            \* per connection: the exchange in progress (request as read, route, response)
    responses,      \* per connection: for each request read, the number of responses written
    ws_sessions_,   \* the session registry (a vector of shared_ptr; Null is a moved-from one)
    mutex_,         \* mutex_ is held
    cs,             \* the registry operations that are past their lock_guard
    sigs,           \* per session: close signals received so far
    cbWait,         \* per session: number of close callbacks blocked on mutex_ in remove()
    added,          \* per session: completed add() calls
    removed,        \* per session: a remove() call for it has completed
    effRemovals,    \* per session: remove() calls that took an entry out of the vector
    hostpc,         \* the host thread calling get_ws_sessions
    snapshot,       \* what the last get_ws_sessions returned to the host
    listener,       \* where the do_listen coroutine is
    acceptLog,      \* the completions of async_accept so far, in order
    threads,        \* the vector of worker threads, each with its position
    ioc_stopped,    \* ioc.stopped()
    life,           \* the server object: alive, in its destructor, destroyed
    runner,         \* the host thread inside run()
    calls,          \* the calls of start, run and stop made on the server so far
    rm              \* a remove() applied to a given vector, once and once more

vars == <<registry_, started, pc, cur, responses, ws_sessions_, mutex_, cs, sigs,
          cbWait, added, removed, effRemovals, hostpc, snapshot, listener, acceptLog,
          threads, ioc_stopped, life, runner, calls, rm>>

Conns == 1..NumConns
Null == 0
NoExchange == [kind |-> "none"]
NoSnapshot == [taken |-> FALSE]
NoRemoval == [stage |-> "none", v |-> <<>>, s |-> 0, once |-> <<>>, twice |-> <<>>]

\* ------------------------------------------------------------- HTTP data
Methods == {"GET", "POST"}
Targets == {<<"a">>, <<"a", "b">>, <<"b">>}
Versions == {10, 11}
ConnectionHeaders == {"none", "close", "keep-alive", "upgrade"}

RECURSIVE TargetString(_)
TargetString(t) == IF t = <<>> THEN "" ELSE "/" \o Head(t) \o TargetString(Tail(t))

\* message::keep_alive(): HTTP/1.0 keeps alive only on request, HTTP/1.1 unless "close"
keep_alive(m) == IF m.version < 11 THEN m.conn = "keep-alive" ELSE m.conn # "close"

\* message::keep_alive(bool) on a message of the given version
set_keep_alive(version, conn, value) ==
    IF version < 11
    THEN IF value THEN "keep-alive" ELSE IF conn \in {"close", "keep-alive"} THEN "none" ELSE conn
    ELSE IF value THEN IF conn \in {"close", "keep-alive"} THEN "none" ELSE conn ELSE "close"

\* websocket::is_upgrade: an HTTP/1.1 GET with "Connection: upgrade" and "Upgrade: websocket"
is_upgrade(req) == req.version >= 11 /\ req.method = "GET" /\ req.conn = "upgrade"

Requests == [method : Methods, target : Targets, version : Versions, conn : ConnectionHeaders]

\* a request whose fields a handler has moved from: the start line's version stays
MovedFrom(req) == [req EXCEPT !.target = <<>>, !.conn = "none"]

\* ----------------------------------------------------------- route table
Patterns == { [prefix |-> <<"a">>, wild |-> FALSE],      \* "/a"
              [prefix |-> <<"a">>, wild |-> TRUE],       \* "/a(/.*)"
              [prefix |-> <<>>, wild |-> TRUE] }         \* "(/.*)"

\* regex_match of the whole target against the pattern
PatternMatches(p, t) ==
    IF p.wild
    THEN Len(t) > Len(p.prefix) /\ SubSeq(t, 1, Len(p.prefix)) = p.prefix
    ELSE t = p.prefix

RouteMatches(r, m, t) == r.method = m /\ PatternMatches(r.pattern, t)

\* Registry::add
registry_add(rt, m, p, k) == Append(rt, [method |-> m, pattern |-> p, kind |-> k])

\* Registry::get: the index of the first route that matches, 0 for NotFound
RECURSIVE registry_scan(_, _, _, _)
registry_scan(rt, m, t, i) ==
    IF i > Len(rt) THEN 0
    ELSE IF RouteMatches(rt[i], m, t) THEN i
    ELSE registry_scan(rt, m, t, i + 1)

registry_get(rt, m, t) == registry_scan(rt, m, t, 1)

\* ------------------------------------------------------ handler outcomes
\* What one invocation of a user handler does: returns a response (leaving
\* keep-alive alone, or setting it), or throws; and, when it throws, whether
\* it had moved from the request it was given (the request is looked at again
\* only to build the response to an exception).
OkOutcomes ==
    { [kind |-> "ok", ka |-> k, moved |-> FALSE, code |-> 200, what |-> "world"] :
        k \in {"default", "on", "off"} }
ThrowOutcomes ==
    { [kind |-> "HttpException", ka |-> "default", moved |-> m, code |-> 403, what |-> "forbidden"] :
        m \in BOOLEAN }
    \cup { [kind |-> "std_exception", ka |-> "default", moved |-> m, code |-> 0, what |-> "boom"] :
        m \in BOOLEAN }
    \cup { [kind |-> "other", ka |-> "default", moved |-> m, code |-> 0, what |-> ""] :
        m \in BOOLEAN }
Outcomes == OkOutcomes \cup ThrowOutcomes
NoOutcome == [kind |-> "none", ka |-> "default", moved |-> FALSE, code |-> 0, what |-> ""]

BadVariantAccess == "bad variant access"
UnhandledException == "unhandled exception"

\* ------------------------------------------------- engine-made responses
NoResponse == [status |-> 0, body |-> "", version |-> 0, conn |-> "none"]

\* A not_found that builds the body without the request's target.
not_found_NoTarget(req) ==
    [status |-> not_found_status,
     body |-> "The resource '" \o "' was not found.",
     version |-> req.version,
     conn |-> set_keep_alive(req.version, "none", keep_alive(req))]

\* WebServer::not_found
not_found(req) ==
    [status |-> not_found_status,
     body |-> "The resource '" \o TargetString(req.target) \o "' was not found.",
     version |-> req.version,
     conn |-> set_keep_alive(req.version, "none", keep_alive(req))]

\* WebServer::exception_response, e an HttpException (code, what)
exception_response(req, e) ==
    [status |-> e.code,
     body |-> e.what,
     version |-> req.version,
     conn |-> set_keep_alive(req.version, "none", keep_alive(req))]

\* The response a handler returns through make_response: make_response is
\* given the handler's result only, so nothing of the request reaches it.
HandlerResponse(o) ==
    [status |-> o.code,
     body |-> o.what,
     version |-> 11,
     conn |-> IF o.ka = "default" THEN "none" ELSE set_keep_alive(11, "none", o.ka = "on")]

\* ------------------------------------------------------------ dispatch
\* A lookup that passes a fixed verb instead of the request's method.
do_session_resolve_FixedVerb(rt, req) == registry_get(rt, "GET", req.target)

\* do_session line 166
do_session_resolve(rt, req) == registry_get(rt, req.method, req.target)

\* The inner try without its first clause, catch (const HttpException&) { throw; }:
\* an HttpException is a std::exception and is taken by the second clause.
invoke_handler_NoRethrow(h, o) ==
    IF h.kind # "http"
    THEN [threw |-> TRUE, code |-> internal_server_error, what |-> BadVariantAccess]
    ELSE CASE o.kind = "ok" -> [threw |-> FALSE, code |-> o.code, what |-> o.what]
           [] o.kind \in {"HttpException", "std_exception"} ->
                [threw |-> TRUE, code |-> internal_server_error, what |-> o.what]
           [] OTHER ->
                [threw |-> TRUE, code |-> internal_server_error, what |-> UnhandledException]

\* do_session lines 180-188: std::get<HttpHandler>(handler)(std::move(req)) and
\* the three catch clauses around it; the result is a response or the
\* HttpException that leaves the inner try.
invoke_handler(h, o) ==
    IF h.kind # "http"
    THEN [threw |-> TRUE, code |-> internal_server_error, what |-> BadVariantAccess]
    ELSE CASE o.kind = "ok" -> [threw |-> FALSE, code |-> o.code, what |-> o.what]
           [] o.kind = "HttpException" -> [threw |-> TRUE, code |-> o.code, what |-> o.what]
           [] o.kind = "std_exception" ->
                [threw |-> TRUE, code |-> internal_server_error, what |-> o.what]
           [] OTHER ->
                [threw |-> TRUE, code |-> internal_server_error, what |-> UnhandledException]

\* do_session lines 163-194: from a request that was read to the response to
\* write ("write"), the upgrade branch ("add"), or an exception that no catch
\* clause of do_session takes ("escaped").
do_session_dispatch(rt, req, o) ==
    LET i == do_session_resolve(rt, req) IN
    IF i = 0
    THEN [next |-> "write", route |-> 0, invoked |-> FALSE, outcome |-> NoOutcome,
          resp |-> not_found(req)]
    ELSE IF is_upgrade(req)
    THEN IF rt[i].kind = "ws"
         THEN [next |-> "add", route |-> i, invoked |-> FALSE, outcome |-> NoOutcome,
               resp |-> NoResponse]
         ELSE [next |-> "escaped", route |-> i, invoked |-> FALSE, outcome |-> NoOutcome,
               resp |-> NoResponse]
    ELSE LET invoked == rt[i].kind = "http"
             r == invoke_handler(rt[i], o)
             after == IF invoked /\ o.moved THEN MovedFrom(req) ELSE req
         IN [next |-> "write", route |-> i, invoked |-> invoked,
             outcome |-> IF invoked THEN o ELSE NoOutcome,
             resp |-> IF r.threw THEN exception_response(after, r) ELSE HandlerResponse(o)]

Exchange(req, d) ==
    [kind |-> "exchange", req |-> req, route |-> d.route, invoked |-> d.invoked,
     outcome |-> d.outcome, resp |-> d.resp]

\* --------------------------------------------------------------- Init
\* The state in which the constructor (lines 47-58) leaves the server: the
\* do_listen coroutine is spawned on ioc and has not run yet, there are no
\* worker threads.
Constructed ==
    /\ registry_ = <<>>
    /\ started = FALSE
    /\ pc = [c \in Conns |-> "idle"]
    /\ cur = [c \in Conns |-> NoExchange]
    /\ responses = [c \in Conns |-> <<>>]
    /\ ws_sessions_ = <<>>
    /\ mutex_ = FALSE
    /\ cs = {}
    /\ sigs = [c \in Conns |-> 0]
    /\ cbWait = [c \in Conns |-> 0]
    /\ added = [c \in Conns |-> 0]
    /\ removed = [c \in Conns |-> FALSE]
    /\ effRemovals = [c \in Conns |-> 0]
    /\ hostpc = "idle"
    /\ snapshot = NoSnapshot
    /\ listener = "spawned"
    /\ acceptLog = <<>>
    /\ threads = <<>>
    /\ ioc_stopped = FALSE
    /\ life = "alive"
    /\ runner = "none"
    /\ calls = <<>>

Init == Constructed /\ rm = NoRemoval

sessionVars == <<pc, cur, responses>>
registryVars == <<ws_sessions_, mutex_, cs, added, removed, effRemovals>>
wsVars == <<sigs, cbWait>>
hostVars == <<hostpc, snapshot>>
listenVars == <<listener, acceptLog>>
lifeVars == <<threads, ioc_stopped, life, runner, calls>>
envVars == <<listenVars, lifeVars, rm>>

\* ------------------------------------------------ registration, start
\* add_http_handler(v, uri_regex, f), called before the server is started
add_http_handler(v, p) ==
    /\ ~started
    /\ Len(registry_) < MaxRoutes
    /\ registry_' = registry_add(registry_, v, p, "http")
    /\ UNCHANGED <<envVars, started, sessionVars, registryVars, wsVars, hostVars>>

\* add_ws_handler(uri_regex, f): always registered for GET
add_ws_handler(p) ==
    /\ ~started
    /\ Len(registry_) < MaxRoutes
    /\ registry_' = registry_add(registry_, "GET", p, "ws")
    /\ UNCHANGED <<envVars, started, sessionVars, registryVars, wsVars, hostVars>>

\* start(n) or run(), seen from the reactor: a thread has entered ioc.run(),
\* and the listener coroutine can run
start ==
    /\ ~started
    /\ started' = TRUE
    /\ UNCHANGED <<envVars, registry_, sessionVars, registryVars, wsVars, hostVars>>

\* do_listen, lines 215-233: the coroutine runs for the first time once the
\* reactor runs; open, set_option, bind and listen either all succeed or one
\* of them throws boost::system::system_error out of the coroutine
do_listen_setup ==
    /\ started
    /\ listener = "spawned"
    /\ listener' \in {"listening", "setup_failed"}
    /\ UNCHANGED <<registry_, started, sessionVars, registryVars, wsVars, hostVars,
                   acceptLog, lifeVars, rm>>

\* An accept loop that returns on a failed accept.
after_accept_Return(ec) == IF ec THEN "stopped" ELSE "listening"

\* lines 235-248: where do_listen goes when async_accept has completed with
\* error code ec: in both branches the for (;;) loop goes round
after_accept(ec) == IF ec THEN "listening" ELSE "listening"

\* do_listen, lines 244-247: an accepted socket gets its own do_session
\* coroutine, which starts by reading
do_listen_accept(c) ==
    /\ listener = "listening"
    /\ pc[c] = "idle"
    /\ pc' = [pc EXCEPT ![c] = "read"]
    /\ acceptLog' = Append(acceptLog, "ok")
    /\ listener' = after_accept(FALSE)
    /\ UNCHANGED <<registry_, started, cur, responses, registryVars, wsVars, hostVars,
                   lifeVars, rm>>

\* do_listen, lines 240-243: async_accept fails, fail(ec, "accept") logs it
do_listen_accept_fail ==
    /\ listener = "listening"
    /\ Cardinality({i \in DOMAIN acceptLog : acceptLog[i] = "fail"}) < MaxAcceptFail
    /\ acceptLog' = Append(acceptLog, "fail")
    /\ listener' = after_accept(TRUE)
    /\ UNCHANGED <<registry_, started, sessionVars, registryVars, wsVars, hostVars,
                   lifeVars, rm>>

\* --------------------------------------------------------- session loop
\* async_read completes (lines 157-161), and on success the loop body runs
\* up to its next suspension point (lines 163-198).
do_session_read(c, Rq, Oc) ==
    /\ pc[c] = "read"
    /\ \/ /\ pc' = [pc EXCEPT ![c] = "closed"]          \* end_of_stream: break, shutdown
          /\ UNCHANGED <<cur, responses>>
       \/ /\ pc' = [pc EXCEPT ![c] = "read_failed"]     \* fail(ec, "read"); return
          /\ UNCHANGED <<cur, responses>>
       \/ /\ Len(responses[c]) < MaxReq
          /\ \E req \in Rq, o \in Oc :
                LET d == do_session_dispatch(registry_, req, o) IN
                /\ pc' = [pc EXCEPT ![c] = d.next]
                /\ cur' = [cur EXCEPT ![c] = Exchange(req, d)]
                /\ responses' = [responses EXCEPT ![c] = Append(@, 0)]
    /\ UNCHANGED <<envVars, registry_, started, registryVars, wsVars, hostVars>>

\* A do_session that swallows the write error and goes on with the loop.
after_write_IgnoringError(resp, ec) == IF keep_alive(resp) THEN "read" ELSE "closed"

\* lines 199-207: where do_session goes when async_write has completed with
\* error code ec: out through fail(), back to the read, or to the shutdown
after_write(resp, ec) ==
    IF ec THEN "write_failed"
    ELSE IF keep_alive(resp) THEN "read" ELSE "closed"

\* async_write completes (lines 198-206)
do_session_write(c) ==
    /\ pc[c] = "write"
    /\ \/ /\ pc' = [pc EXCEPT ![c] = after_write(cur[c].resp, FALSE)]
          /\ responses' = [responses EXCEPT ![c][Len(responses[c])] = @ + 1]
       \/ /\ pc' = [pc EXCEPT ![c] = after_write(cur[c].resp, TRUE)]   \* the write failed
          /\ UNCHANGED responses
    /\ cur' = [cur EXCEPT ![c] = NoExchange]
    /\ UNCHANGED <<envVars, registry_, started, registryVars, wsVars, hostVars>>

\* ----------------------------------------------------- session registry
\* A registry operation that does not take the lock.
lock_guard_ready_NoLock(m) == TRUE

\* std::lock_guard<std::mutex> lock(mutex_): the constructor returns once the
\* mutex is free
lock_guard_ready(m) == ~m

Agent(op, s, k, phase, newEnd) ==
    [op |-> op, s |-> s, k |-> k, phase |-> phase, newEnd |-> newEnd]

\* ws_sessions_.push_back(std::move(session))
vector_push_back(v, s) == Append(v, s)

\* std::remove(first, last, value) on a vector of shared_ptr: the elements that
\* differ from value are move-assigned to the front, a moved-from shared_ptr is
\* empty; the result is the vector and the new logical end.
RECURSIVE std_find(_, _, _)
std_find(v, s, i) ==
    IF i > Len(v) THEN i ELSE IF v[i] = s THEN i ELSE std_find(v, s, i + 1)

RECURSIVE std_remove_loop(_, _, _, _)
std_remove_loop(v, s, first, result) ==
    IF first > Len(v) THEN [vec |-> v, newEnd |-> result - 1]
    ELSE IF v[first] # s
    THEN std_remove_loop([v EXCEPT ![result] = v[first], ![first] = Null], s,
                         first + 1, result + 1)
    ELSE std_remove_loop(v, s, first + 1, result)

\* A removal that fills the hole with the last element instead of shifting
\* the elements after it.
std_remove_SwapLast(v, s) ==
    LET f == std_find(v, s, 1) IN
    IF f > Len(v) THEN [vec |-> v, newEnd |-> Len(v)]
    ELSE [vec |-> [v EXCEPT ![f] = v[Len(v)], ![Len(v)] = Null], newEnd |-> Len(v) - 1]

std_remove(v, s) ==
    LET f == std_find(v, s, 1) IN
    IF f > Len(v) THEN [vec |-> v, newEnd |-> Len(v)]
    ELSE std_remove_loop(v, s, f + 1, f)

\* A remove() that calls std::remove and forgets the erase.
vector_erase_Forgotten(v, newEnd) == v

\* A remove() that erases from begin() to the new end instead of from the new
\* end to end().
vector_erase_Front(v, newEnd) == SubSeq(v, newEnd + 1, Len(v))

\* ws_sessions_.erase(new_end, ws_sessions_.end())
vector_erase(v, newEnd) == SubSeq(v, 1, IF newEnd < Len(v) THEN newEnd ELSE Len(v))

\* WebServer::add, entered from do_session line 171: the lock_guard
add_lock(c) ==
    /\ pc[c] = "add"
    /\ lock_guard_ready(mutex_)
    /\ mutex_' = TRUE
    /\ cs' = cs \cup {Agent("add", c, 0, "locked", 0)}
    /\ pc' = [pc EXCEPT ![c] = "push_back"]
    /\ UNCHANGED <<envVars, registry_, started, cur, responses, ws_sessions_, added, removed,
                   effRemovals, wsVars, hostVars>>

\* WebServer::add: push_back and unlock; then do_session attaches the close
\* callback (lines 172-174) and calls session->run (line 175), which starts
\* with the handshake
add_push_back(c) ==
    /\ pc[c] = "push_back"
    /\ ws_sessions_' = vector_push_back(ws_sessions_, c)
    /\ added' = [added EXCEPT ![c] = @ + 1]
    /\ mutex_' = FALSE
    /\ cs' = cs \ {Agent("add", c, 0, "locked", 0)}
    /\ pc' = [pc EXCEPT ![c] = "handshake"]
    /\ UNCHANGED <<envVars, registry_, started, cur, responses, removed, effRemovals, wsVars, hostVars>>

\* WebSocketSessionImpl::run: the handshake completes. On success the
\* WebSocket handler runs for the life of the connection; on failure run
\* returns, and the close callback may or may not be invoked.
ws_handshake(c) ==
    /\ pc[c] = "handshake"
    /\ cur' = [cur EXCEPT ![c] = NoExchange]
    /\ \/ /\ pc' = [pc EXCEPT ![c] = "ws_open"]
          /\ UNCHANGED wsVars
       \/ /\ pc' = [pc EXCEPT ![c] = "ws_failed"]
          /\ \/ UNCHANGED wsVars
             \/ /\ sigs' = [sigs EXCEPT ![c] = 1]
                /\ cbWait' = [cbWait EXCEPT ![c] = 1]
    /\ UNCHANGED <<envVars, registry_, started, responses, registryVars, hostVars>>

\* A close signal reaches an open session (the peer closes, the application
\* closes, a protocol error): the callback given to on_close is invoked and
\* calls WebServer::remove, line 173
ws_close_signal(c) ==
    /\ pc[c] = "ws_open"
    /\ sigs[c] < MaxClose
    /\ sigs' = [sigs EXCEPT ![c] = @ + 1]
    /\ cbWait' = [cbWait EXCEPT ![c] = @ + 1]
    /\ UNCHANGED <<envVars, registry_, started, sessionVars, registryVars, hostVars>>

\* An upgrade branch that leaves the loop with break, and so goes through the
\* shutdown of line 207.
after_run_Break == "closed"

\* line 176: when session->run has returned, do_session returns; it does not
\* reach the shutdown of line 207
after_run == "ws_done"

\* session->run returns (line 175), and do_session goes on from there
ws_run_return(c) ==
    /\ pc[c] = "ws_open"
    /\ sigs[c] >= 1
    /\ pc' = [pc EXCEPT ![c] = after_run]
    /\ UNCHANGED <<envVars, registry_, started, cur, responses, registryVars, wsVars, hostVars>>

\* WebServer::remove: the lock_guard. The callbacks of one session are told
\* apart by the order in which they get past it.
remove_lock(c) ==
    /\ cbWait[c] > 0
    /\ lock_guard_ready(mutex_)
    /\ mutex_' = TRUE
    /\ cs' = cs \cup {Agent("remove", c, sigs[c] - cbWait[c] + 1, "locked", 0)}
    /\ cbWait' = [cbWait EXCEPT ![c] = @ - 1]
    /\ UNCHANGED <<envVars, registry_, started, sessionVars, ws_sessions_, added, removed,
                   effRemovals, sigs, hostVars>>

\* WebServer::remove: std::remove
remove_std_remove(c, k) ==
    /\ Agent("remove", c, k, "locked", 0) \in cs
    /\ LET r == std_remove(ws_sessions_, c) IN
       /\ ws_sessions_' = r.vec
       /\ cs' = (cs \ {Agent("remove", c, k, "locked", 0)})
                    \cup {Agent("remove", c, k, "compacted", r.newEnd)}
    /\ UNCHANGED <<envVars, registry_, started, sessionVars, mutex_, added, removed, effRemovals,
                   wsVars, hostVars>>

\* WebServer::remove: erase, and unlock
remove_erase(c, k) ==
    \E a \in cs :
        /\ a.op = "remove" /\ a.s = c /\ a.k = k /\ a.phase = "compacted"
        /\ ws_sessions_' = vector_erase(ws_sessions_, a.newEnd)
        /\ effRemovals' = [effRemovals EXCEPT ![c] = IF a.newEnd < Len(ws_sessions_)
                                                     THEN @ + 1 ELSE @]
        /\ removed' = [removed EXCEPT ![c] = TRUE]
        /\ mutex_' = FALSE
        /\ cs' = cs \ {a}
        /\ UNCHANGED <<envVars, registry_, started, sessionVars, added, wsVars, hostVars>>

\* The connections that are upgraded and open: the handshake has succeeded and
\* the server has not yet recorded the close by removing the session
OpenUpgraded == {c \in Conns : pc[c] \in {"ws_open", "ws_done"} /\ ~removed[c]}

\* WebServer::get_ws_sessions: the lock_guard
get_ws_sessions_lock ==
    /\ hostpc = "idle"
    /\ lock_guard_ready(mutex_)
    /\ mutex_' = TRUE
    /\ cs' = cs \cup {Agent("snapshot", 0, 0, "locked", 0)}
    /\ hostpc' = "copy"
    /\ UNCHANGED <<envVars, registry_, started, sessionVars, ws_sessions_, added, removed,
                   effRemovals, wsVars, snapshot>>

\* what the caller of get_ws_sessions holds: the vector is returned by value
get_ws_sessions_result(v) == [alias |-> FALSE, val |-> v]

\* WebServer::get_ws_sessions: the copy, and unlock. The host keeps what it
\* got, or drops it at once.
get_ws_sessions_copy(keep) ==
    /\ hostpc = "copy"
    /\ snapshot' = IF keep
                   THEN [taken |-> TRUE, ret |-> get_ws_sessions_result(ws_sessions_),
                         open |-> OpenUpgraded]
                   ELSE NoSnapshot
    /\ mutex_' = FALSE
    /\ cs' = cs \ {Agent("snapshot", 0, 0, "locked", 0)}
    /\ hostpc' = "idle"
    /\ UNCHANGED <<envVars, registry_, started, sessionVars, ws_sessions_, added, removed,
                   effRemovals, wsVars>>

\* the collection the host sees when it looks at what get_ws_sessions returned
SnapshotView == IF snapshot.ret.alias THEN ws_sessions_ ELSE snapshot.ret.val

\* ------------------------------------------- worker threads, stop, destructor
serverVars == <<registry_, started, sessionVars, registryVars, wsVars, hostVars, listenVars>>

RECURSIVE NewThreads(_)
NewThreads(n) == IF n = 0 THEN <<>> ELSE Append(NewThreads(n - 1), "created")

\* start(nb_threads), lines 88-97: nb_threads std::thread objects are put in
\* threads; each will call ioc.run()
start_threads(nb_threads) ==
    /\ life = "alive"
    /\ Len(calls) < MaxCalls
    /\ Len(threads) + nb_threads <= MaxThreads
    /\ threads' = threads \o NewThreads(nb_threads)
    /\ calls' = Append(calls, "start")
    /\ UNCHANGED <<serverVars, ioc_stopped, life, runner, rm>>

\* a worker thread gets to its ioc.run(), line 93: run() returns at once when
\* the io_context is stopped
worker_run(t) ==
    /\ t \in DOMAIN threads
    /\ threads[t] = "created"
    /\ threads' = [threads EXCEPT ![t] = IF ioc_stopped THEN "exited" ELSE "running"]
    /\ UNCHANGED <<serverVars, ioc_stopped, life, runner, calls, rm>>

\* ioc.run() returns in a worker thread, and the thread function ends: the
\* listener coroutine keeps the io_context busy, so run() returns only when
\* the io_context has been stopped
worker_exit(t) ==
    /\ t \in DOMAIN threads
    /\ threads[t] = "running"
    /\ ioc_stopped
    /\ threads' = [threads EXCEPT ![t] = "exited"]
    /\ UNCHANGED <<serverVars, ioc_stopped, life, runner, calls, rm>>

\* run(), lines 105-108: the calling thread enters ioc.run()
run_enter ==
    /\ life = "alive"
    /\ runner = "none"
    /\ Len(calls) < MaxCalls
    /\ runner' = IF ioc_stopped THEN "none" ELSE "running"
    /\ calls' = Append(calls, "run")
    /\ UNCHANGED <<serverVars, threads, ioc_stopped, life, rm>>

\* run() returns to its caller
run_return ==
    /\ runner = "running"
    /\ ioc_stopped
    /\ runner' = "none"
    /\ UNCHANGED <<serverVars, threads, ioc_stopped, life, calls, rm>>

\* ioc.stop(): the io_context is stopped, and stays so (restart is never called)
ioc_stop(stopped) == TRUE

\* stop(), lines 110-113, called from any thread
stop ==
    /\ life = "alive"
    /\ Len(calls) < MaxCalls
    /\ ioc_stopped' = ioc_stop(ioc_stopped)
    /\ calls' = Append(calls, "stop")
    /\ UNCHANGED <<serverVars, threads, life, runner, rm>>

\* A destructor that joins the threads without stopping the io_context first.
dtor_stop_Missing(stopped) == stopped

\* ~WebServer, line 62: stop()
dtor_stop(stopped) == ioc_stop(stopped)

\* ~WebServer begins, on a server no thread is blocked in run() of
dtor_begin ==
    /\ life = "alive"
    /\ runner = "none"
    /\ ioc_stopped' = dtor_stop(ioc_stopped)
    /\ life' = "joining"
    /\ UNCHANGED <<serverVars, threads, runner, calls, rm>>

\* the threads that ~WebServer has not joined yet
Unjoined == {t \in DOMAIN threads : threads[t] # "joined"}

\* ~WebServer, line 63: std::for_each joins the threads in order; join returns
\* when the thread function has ended
dtor_join ==
    /\ life = "joining"
    /\ \E t \in Unjoined :
          /\ \A u \in Unjoined : t <= u
          /\ threads[t] = "exited"
          /\ threads' = [threads EXCEPT ![t] = "joined"]
    /\ UNCHANGED <<serverVars, ioc_stopped, life, runner, calls, rm>>

\* ~WebServer returns: every thread is joined, the members are destroyed
dtor_end ==
    /\ life = "joining"
    /\ Unjoined = {}
    /\ life' = "destroyed"
    /\ UNCHANGED <<serverVars, threads, ioc_stopped, runner, calls, rm>>

\* ------------------------------------------------- remove as a function
\* WebServer::remove, lines 257-262, on the vector it finds
remove(v, s) ==
    LET r == std_remove(v, s) IN vector_erase(r.vec, r.newEnd)

Removal(stage, v, s, once, twice) ==
    [stage |-> stage, v |-> v, s |-> s, once |-> once, twice |-> twice]

\* remove(rm.s) is called on a registry holding rm.v
remove_once ==
    /\ rm.stage = "given"
    /\ rm' = Removal("once", rm.v, rm.s, remove(rm.v, rm.s), <<>>)
    /\ UNCHANGED <<serverVars, lifeVars>>

\* remove(rm.s) is called again on what the first call left
remove_twice ==
    /\ rm.stage = "once"
    /\ rm' = Removal("twice", rm.v, rm.s, rm.once, remove(rm.once, rm.s))
    /\ UNCHANGED <<serverVars, lifeVars>>

\* ------------------------------------------------------ specifications
\* Spec: the session registry under concurrent upgrades, close signals and
\* snapshots; every connection reads an upgrade request or a request that
\* matches no route.
WsRequests ==
    { [method |-> "GET", target |-> <<"a">>, version |-> 11, conn |-> "upgrade"],
      [method |-> "GET", target |-> <<"b">>, version |-> 11, conn |-> "close"] }
NoOutcomes == { NoOutcome }
WsPatterns == { [prefix |-> <<"a">>, wild |-> FALSE] }

RegistryNext(keep) ==
    \/ \E p \in WsPatterns : add_ws_handler(p)
    \/ start
    \/ do_listen_setup
    \/ \E c \in Conns : do_listen_accept(c)
    \/ \E c \in Conns : do_session_read(c, WsRequests, NoOutcomes)
    \/ \E c \in Conns : do_session_write(c)
    \/ \E c \in Conns : add_lock(c)
    \/ \E c \in Conns : add_push_back(c)
    \/ \E c \in Conns : ws_handshake(c)
    \/ \E c \in Conns : ws_close_signal(c)
    \/ \E c \in Conns : ws_run_return(c)
    \/ \E c \in Conns : remove_lock(c)
    \/ \E c \in Conns, k \in 1..MaxClose : remove_std_remove(c, k)
    \/ \E c \in Conns, k \in 1..MaxClose : remove_erase(c, k)
    \/ get_ws_sessions_lock
    \/ get_ws_sessions_copy(keep)

Next == RegistryNext(FALSE)

Spec == Init /\ [][Next]_vars

\* SpecSnap: as Spec, and the host keeps the collection get_ws_sessions returned.
NextSnap == RegistryNext(TRUE)

SpecSnap == Init /\ [][NextSnap]_vars

\* SpecLoop: the HTTP session loops of all connections side by side.
LoopRequests ==
    { [method |-> "GET", target |-> <<"a">>, version |-> 11, conn |-> "none"],
      [method |-> "GET", target |-> <<"b">>, version |-> 11, conn |-> "close"] }
LoopOutcomes ==
    { [kind |-> "ok", ka |-> "default", moved |-> FALSE, code |-> 200, what |-> "world"],
      [kind |-> "ok", ka |-> "off", moved |-> FALSE, code |-> 200, what |-> "world"] }
LoopPatterns == { [prefix |-> <<"a">>, wild |-> FALSE] }

NextLoop ==
    \/ \E p \in LoopPatterns : add_http_handler("GET", p)
    \/ start
    \/ do_listen_setup
    \/ \E c \in Conns : do_listen_accept(c)
    \/ do_listen_accept_fail
    \/ \E c \in Conns : do_session_read(c, LoopRequests, LoopOutcomes)
    \/ \E c \in Conns : do_session_write(c)

SpecLoop == Init /\ [][NextLoop]_vars

\* SpecHttp: one connection, every request, route table and handler outcome.
HttpConns == {1}

NextHttp ==
    \/ \E v \in Methods, p \in Patterns : add_http_handler(v, p)
    \/ \E p \in Patterns : add_ws_handler(p)
    \/ start
    \/ do_listen_setup
    \/ \E c \in HttpConns : do_listen_accept(c)
    \/ \E c \in HttpConns : do_session_read(c, Requests, Outcomes)
    \/ \E c \in HttpConns : do_session_write(c)
    \/ \E c \in HttpConns : add_lock(c)
    \/ \E c \in HttpConns : add_push_back(c)
    \/ \E c \in HttpConns : ws_handshake(c)
    \/ \E c \in HttpConns : ws_close_signal(c)
    \/ \E c \in HttpConns : ws_run_return(c)
    \/ \E c \in HttpConns : remove_lock(c)
    \/ \E c \in HttpConns, k \in 1..MaxClose : remove_std_remove(c, k)
    \/ \E c \in HttpConns, k \in 1..MaxClose : remove_erase(c, k)

SpecHttp == Init /\ [][NextHttp]_vars

\* SpecLife: start, run, stop and the destructor with the worker threads,
\* without connections.
NextLife ==
    \/ \E n \in 0..MaxThreads : start_threads(n)
    \/ \E t \in 1..MaxThreads : worker_run(t)
    \/ \E t \in 1..MaxThreads : worker_exit(t)
    \/ run_enter
    \/ run_return
    \/ stop
    \/ dtor_begin
    \/ dtor_join
    \/ dtor_end

SpecLife == Init /\ [][NextLife]_vars

\* SpecRemove: remove applied once and once more to every registry of up to
\* MaxSessions sessions, each session at most once in it, and every session.
SessionIds == 1..MaxSessions
SessionVectors ==
    {v \in UNION {[1..n -> SessionIds] : n \in 0..MaxSessions} :
        \A i, j \in DOMAIN v : v[i] = v[j] => i = j}

InitRemove ==
    /\ Constructed
    /\ rm \in {Removal("given", v, s, <<>>, <<>>) : v \in SessionVectors, s \in SessionIds}

NextRemove ==
    \/ remove_once
    \/ remove_twice

SpecRemove == InitRemove /\ [][NextRemove]_vars

\* ================================================================ claims
Range(f) == {f[i] : i \in DOMAIN f}

\* where a do_session is once it has taken the upgrade branch
UpgradeStates == {"add", "push_back", "handshake", "ws_open", "ws_failed", "ws_done"}

\* the routes of the table that match a request, by the definition of a match
Matching(req) ==
    {i \in 1..Len(registry_) :
        registry_[i].method = req.method /\ PatternMatches(registry_[i].pattern, req.target)}

\* C1 (code_bug): every request that was read and did not start an upgrade has
\* exactly one response written, unless its write is still in progress or has
\* failed; no response is written without a request, and none once the upgrade
\* branch has been taken.
C1_ExactlyOneResponse ==
    \A c \in Conns : \A i \in 1..Len(responses[c]) :
        /\ responses[c][i] <= 1
        /\ \/ responses[c][i] = 1
           \/ /\ i = Len(responses[c])
              /\ pc[c] \in {"write", "write_failed"} \cup UpgradeStates

\* C2: while a connection's session loop is reading, every request it has read
\* so far has had its response written; while it is writing, only the last
\* request read is unanswered.
C2_StrictlySequential ==
    \A c \in Conns :
        /\ pc[c] = "read" => \A i \in 1..Len(responses[c]) : responses[c][i] = 1
        /\ pc[c] = "write" =>
             /\ Len(responses[c]) >= 1
             /\ responses[c][Len(responses[c])] = 0
             /\ \A i \in 1..(Len(responses[c]) - 1) : responses[c][i] = 1

\* C2 witness: one connection is reading its second request after its first
\* response was written, while another connection is in the middle of a write.
C2_Witness ==
    \E c, d \in Conns :
        /\ c # d
        /\ pc[c] = "read" /\ Len(responses[c]) = 1 /\ responses[c][1] = 1
        /\ pc[d] = "write"

\* C3: the route the session loop resolves a request to is the earliest
\* registered route whose method equals the request's and whose pattern matches
\* the whole target, HTTP and WebSocket routes in one table; the not-found
\* response is what the loop writes if and only if no registered route matches.
C3_FirstRegisteredWins ==
    \A c \in Conns :
        cur[c].kind = "exchange" =>
            LET M == Matching(cur[c].req)
                noRoute == /\ pc[c] = "write"
                           /\ ~cur[c].invoked
                           /\ cur[c].resp.status = not_found_status
            IN /\ M = {} <=> noRoute
               /\ M = {} <=> cur[c].route = 0
               /\ M # {} => /\ cur[c].route \in M
                            /\ \A j \in M : cur[c].route <= j

\* C3 witness: a request that two registered routes match, one an HTTP route
\* and one a WebSocket route, resolved to the first of them.
C3_Witness ==
    \E c \in Conns :
        /\ cur[c].kind = "exchange"
        /\ Matching(cur[c].req) = {1, 2}
        /\ registry_[1].kind # registry_[2].kind
        /\ cur[c].route = 1

NotFoundBody(t) ==
    CASE t = <<"a">> -> "The resource '/a' was not found."
      [] t = <<"a", "b">> -> "The resource '/a/b' was not found."
      [] t = <<"b">> -> "The resource '/b' was not found."

\* C4: a request that was read and matches no registered route gets a response
\* to write, with status 404 and body "The resource '<target>' was not found.",
\* without any handler invoked; and once that response is written the loop
\* reads on if the request asked for keep-alive.
C4_NotFoundState ==
    \A c \in Conns :
        (cur[c].kind = "exchange" /\ Matching(cur[c].req) = {}) =>
            /\ pc[c] = "write"
            /\ cur[c].resp.status = 404
            /\ cur[c].resp.body = NotFoundBody(cur[c].req.target)
            /\ ~cur[c].invoked

C4_NotFoundStep ==
    \A c \in Conns :
        (/\ pc[c] = "write"
         /\ Matching(cur[c].req) = {}
         /\ keep_alive(cur[c].req)
         /\ pc'[c] \notin {"write", "write_failed"}) => pc'[c] = "read"

C4_NotFound == []C4_NotFoundState /\ [][C4_NotFoundStep]_vars

\* C4 witness: the 404 for "/a/b" is being written on a connection whose
\* request asked for keep-alive, with a route registered that does not match.
C4_Witness ==
    \E c \in Conns :
        /\ pc[c] = "write"
        /\ Len(registry_) >= 1
        /\ Matching(cur[c].req) = {}
        /\ cur[c].req.target = <<"a", "b">>
        /\ keep_alive(cur[c].req)
        /\ cur[c].resp.body = "The resource '/a/b' was not found."

\* C5: an HttpHandler that throws HttpException(status, message) gets a
\* response with that status and that message as body; one that throws
\* anything else gets status 500 with the exception's what() as body, or
\* "unhandled exception" when it is no std::exception; in both cases there is a
\* response to write.
C5_HandlerFailures ==
    \A c \in Conns :
        (cur[c].kind = "exchange" /\ cur[c].invoked /\ cur[c].outcome.kind # "ok") =>
            /\ pc[c] = "write"
            /\ cur[c].outcome.kind = "HttpException" =>
                 /\ cur[c].resp.status = cur[c].outcome.code
                 /\ cur[c].resp.body = cur[c].outcome.what
            /\ cur[c].outcome.kind = "std_exception" =>
                 /\ cur[c].resp.status = 500
                 /\ cur[c].resp.body = cur[c].outcome.what
            /\ cur[c].outcome.kind = "other" =>
                 /\ cur[c].resp.status = 500
                 /\ cur[c].resp.body = "unhandled exception"

\* C5 witness: the response to HttpException(403, "forbidden") is being written.
C5_Witness ==
    \E c \in Conns :
        /\ pc[c] = "write"
        /\ cur[c].invoked
        /\ cur[c].outcome.kind = "HttpException"
        /\ cur[c].resp.status = 403
        /\ cur[c].resp.body = "forbidden"

\* C6 (code_bug): when the response of an HttpHandler that left keep-alive
\* alone has been written, the loop reads again if the request had keep-alive
\* enabled, and closes the connection, with no further read, if it had not.
C6_KeepAliveStep ==
    \A c \in Conns :
        (/\ pc[c] = "write"
         /\ cur[c].invoked
         /\ cur[c].outcome.kind = "ok"
         /\ cur[c].outcome.ka = "default"
         /\ pc'[c] \notin {"write", "write_failed"}) =>
            pc'[c] = IF keep_alive(cur[c].req) THEN "read" ELSE "closed"

C6_KeepAliveRoundTrip == [][C6_KeepAliveStep]_vars

\* how often a session is in the registry
Count(c) == Cardinality({i \in DOMAIN ws_sessions_ : ws_sessions_[i] = c})

\* a remove() for session c is past its lock_guard
RemoveInProgress(c) == \E a \in cs : a.op = "remove" /\ a.s = c

\* every close callback invoked for session c so far has returned
CloseHandled(c) == sigs[c] >= 1 /\ cbWait[c] = 0 /\ ~RemoveInProgress(c)

\* C7: a connection that takes the upgrade branch has its session added exactly
\* once, and no other connection has one added; once the session's handshake
\* has succeeded and the callbacks of all its close signals (one or several, in
\* any interleaving) have returned, the session is not in the registry and
\* exactly one remove() took an entry out; a session none of whose callbacks has
\* got into remove() yet is in the registry exactly once.
C7_UpgradeLifecycle ==
    \A c \in Conns :
        /\ added[c] = IF pc[c] \in {"handshake", "ws_open", "ws_failed", "ws_done"} THEN 1 ELSE 0
        /\ effRemovals[c] <= 1
        /\ Count(c) <= 1
        /\ (pc[c] \in {"ws_open", "ws_done"} /\ CloseHandled(c)) =>
              (Count(c) = 0 /\ effRemovals[c] = 1)
        /\ (added[c] = 1 /\ sigs[c] = cbWait[c]) => Count(c) = 1

\* C7 witness: a session that received two close signals, both callbacks have
\* returned, while another session is still registered.
C7_Witness ==
    \E c, d \in Conns :
        /\ c # d
        /\ pc[c] \in {"ws_open", "ws_done"}
        /\ sigs[c] = 2 /\ CloseHandled(c)
        /\ added[d] = 1 /\ Count(d) = 1

\* C8: no session is in the registry more than once, in every state; and
\* except for a session whose remove() is between its std::remove and its
\* erase, a session is in the registry if and only if an add() for it has
\* completed and no remove() for it has; when no operation is in progress the
\* vector holds nothing else.
C8_RegistryInvariant ==
    /\ \A i, j \in DOMAIN ws_sessions_ :
          (i # j /\ ws_sessions_[i] # Null) => ws_sessions_[i] # ws_sessions_[j]
    /\ \A c \in Conns :
          (~\E a \in cs : a.op = "remove" /\ a.s = c /\ a.phase = "compacted") =>
              (c \in Range(ws_sessions_) <=> (added[c] > 0 /\ ~removed[c]))
    /\ cs = {} => Range(ws_sessions_) \subseteq Conns

\* C8 witness: no operation in progress, one session added and removed again,
\* another one added and still there.
C8_Witness ==
    /\ cs = {}
    /\ \E c, d \in Conns :
          /\ added[c] = 1 /\ removed[c] /\ c \notin Range(ws_sessions_)
          /\ added[d] = 1 /\ ~removed[d] /\ d \in Range(ws_sessions_)

\* C9 (code_bug): the collection get_ws_sessions returned has as many entries as
\* there were open upgraded connections when the copy was made, and what the
\* host holds does not change afterwards.
C9_SnapshotOfOpenSessions ==
    snapshot.taken =>
        /\ Len(snapshot.ret.val) = Cardinality(snapshot.open)
        /\ SnapshotView = snapshot.ret.val

\* C10: at most one of add, remove and get_ws_sessions is past its lock_guard at
\* any time, and mutex_ is held exactly then; so what get_ws_sessions is about
\* to copy holds no moved-from entry of a remove() in progress and is exactly
\* the sessions added and not yet removed.
C10_MutualExclusion ==
    /\ Cardinality(cs) <= 1
    /\ mutex_ <=> cs # {}
    /\ hostpc = "copy" =>
          /\ Null \notin Range(ws_sessions_)
          /\ Range(ws_sessions_) = {c \in Conns : added[c] > 0 /\ ~removed[c]}
          /\ \A c \in Conns : Count(c) <= 1

\* C10 witness: get_ws_sessions holds the lock while one connection is blocked
\* in add() and a close callback of another is blocked in remove().
C10_Witness ==
    /\ hostpc = "copy"
    /\ \E c, d \in Conns : pc[c] = "add" /\ cbWait[d] > 0

\* C11: a socket is used by its session loop (pending read, pending write,
\* shutdown) or by its WebSocket session, never by both: once do_session has
\* taken the upgrade branch it stays there, so the loop reads nothing, writes
\* nothing and does not shut the socket down, also after session->run has
\* returned.
C11_SocketOwnerStep ==
    \A c \in Conns :
        pc[c] \in UpgradeStates =>
            /\ pc'[c] \in UpgradeStates
            /\ responses'[c] = responses[c]

C11_SocketOwner == [][C11_SocketOwnerStep]_vars

\* C11 witness: a WebSocket session has run to completion on one socket while
\* the session loop of another socket is still writing a response.
C11_Witness ==
    \E c, d \in Conns : pc[c] = "ws_done" /\ pc[d] = "write"

\* C12 (code_bug): the listener setup has not failed in any state in which the
\* server is constructed or started; every state of the model is one the
\* constructor has returned to.
C12_SetupFailureAtConstruction == listener # "setup_failed"

\* the entries of the accept log with a given outcome
Accepts(outcome) == {i \in DOMAIN acceptLog : acceptLog[i] = outcome}

\* C14: the listener goes on accepting after a failed accept. A failed accept
\* is logged, starts no session loop and leaves the listener in its loop; a
\* successful accept starts exactly one session loop, at its first read, for
\* the accepted socket, so there are as many session loops as successful
\* accepts.
C14_ListenerState ==
    /\ Accepts("fail") # {} => listener = "listening"
    /\ Cardinality(Accepts("ok")) = Cardinality({c \in Conns : pc[c] # "idle"})

C14_ListenerStep ==
    acceptLog' # acceptLog =>
        /\ listener' = "listening"
        /\ Len(acceptLog') = Len(acceptLog) + 1
        /\ acceptLog'[Len(acceptLog')] = "fail" => pc' = pc
        /\ acceptLog'[Len(acceptLog')] = "ok" =>
              \E c \in Conns :
                  /\ pc[c] = "idle" /\ pc'[c] = "read"
                  /\ \A d \in Conns \ {c} : pc'[d] = pc[d]

C14_ListenerGoesOn == []C14_ListenerState /\ [][C14_ListenerStep]_vars

\* C14 witness: an accept has failed and a later accept has succeeded, and the
\* listener is still in its loop.
C14_Witness ==
    /\ listener = "listening"
    /\ \E i, j \in DOMAIN acceptLog :
          i < j /\ acceptLog[i] = "fail" /\ acceptLog[j] = "ok"

\* the response in progress on c was made by the engine, not by a handler:
\* not_found, or exception_response
EngineMade(c) ==
    /\ pc[c] = "write"
    /\ \/ cur[c].route = 0
       \/ ~cur[c].invoked
       \/ cur[c].outcome.kind # "ok"

\* C15 (code_bug): a response made by the engine has the keep-alive of the
\* request as it was read, also when the handler was given the request before
\* it threw.
C15_EngineResponseKeepAlive ==
    \A c \in Conns :
        EngineMade(c) => keep_alive(cur[c].resp) = keep_alive(cur[c].req)

\* do_session has returned without having taken the upgrade branch or let an
\* exception out
LoopEnded(c) == pc[c] \in {"closed", "read_failed", "write_failed"}

\* do_session has passed socket.shutdown(shutdown_send), line 207
ShutdownSend(c) == pc[c] = "closed"

\* C16 (code_bug): a session loop that has ended has shut down the sending side
\* of its socket, whatever ended it, and after a failed read or write no
\* response is in progress.
C16_EndsThroughClosing ==
    \A c \in Conns :
        /\ LoopEnded(c) => ShutdownSend(c)
        /\ pc[c] \in {"read_failed", "write_failed"} => cur[c] = NoExchange

\* C17 (code_bug): a session in the registry has completed its handshake, and a
\* session whose handshake failed was never added.
C17_HandshakeBeforeAdd ==
    \A c \in Conns :
        /\ c \in Range(ws_sessions_) => pc[c] \in {"ws_open", "ws_done"}
        /\ pc[c] = "ws_failed" => added[c] = 0

\* C18 (code_bug): a request that is no upgrade and resolves to a WebSocket
\* route gets what a request without a route gets, the not_found response; the
\* handler is not invoked and no session is added.
C18_RoutingMismatch ==
    \A c \in Conns :
        ( /\ cur[c].kind = "exchange"
          /\ cur[c].route > 0
          /\ ~is_upgrade(cur[c].req)
          /\ registry_[cur[c].route].kind = "ws" ) =>
            /\ pc[c] = "write"
            /\ cur[c].resp = not_found(cur[c].req)
            /\ ~cur[c].invoked
            /\ added[c] = 0
            /\ c \notin Range(ws_sessions_)

\* C20 (code_bug): whatever the request and the route it resolves to, dispatch
\* ends in a response to write or in the upgrade branch.
C20_DispatchNeverEscapes ==
    \A c \in Conns :
        cur[c].kind = "exchange" => pc[c] \in {"write"} \cup UpgradeStates

\* what can happen while ~WebServer is at work: a worker thread moves on, or
\* the destructor does
DtorProgress ==
    \/ \E t \in 1..MaxThreads : worker_run(t)
    \/ \E t \in 1..MaxThreads : worker_exit(t)
    \/ dtor_join
    \/ dtor_end

\* C13: the destructor terminates with every worker thread joined, whatever
\* calls of start, run and stop came before: while it is at work the
\* io_context is stopped and a worker thread or the destructor itself can take
\* its next step (each thread has at most three steps to take), and once it has
\* returned every thread is joined; this covers the histories with two calls
\* of stop and those without start.
C13_DestructorJoinsAll ==
    /\ life = "joining" => ioc_stopped /\ ENABLED DtorProgress
    /\ life = "destroyed" => \A t \in DOMAIN threads : threads[t] = "joined"

\* C13 witness: the server is destroyed after start and two calls of stop, with
\* two worker threads joined.
C13_Witness ==
    /\ life = "destroyed"
    /\ Len(threads) >= 2
    /\ \E i \in DOMAIN calls : calls[i] = "start"
    /\ Cardinality({i \in DOMAIN calls : calls[i] = "stop"}) >= 2

\* C19: remove takes out the entries that are the given session and nothing
\* else, and keeps the others in their order; on a registry without the session
\* it changes nothing, so a second remove leaves what the first one left.
C19_RemoveIdempotent ==
    LET Other(x) == x # rm.s IN
    /\ rm.stage \in {"once", "twice"} =>
          /\ rm.once = SelectSeq(rm.v, Other)
          /\ rm.s \notin Range(rm.v) => rm.once = rm.v
    /\ rm.stage = "twice" => rm.twice = rm.once

\* C19 witness: a session in the middle of a registry of three has been
\* removed, and removed again.
C19_Witness ==
    /\ rm.stage = "twice"
    /\ Len(rm.v) >= 3
    /\ rm.v[2] = rm.s
    /\ Len(rm.twice) = Len(rm.v) - 1
====
